---- MODULE Spec2Model ----
(***************************************************************************)
(* Qubit routing: the routing state (qroute/environment/state.py), the     *)
(* transition step built on it, the simulated-annealing search             *)
(* (qroute/algorithms/simanneal.py) and the episode loop                   *)
(* (train_step, qroute/engine.py).                                         *)
(*                                                                         *)
(* Nodes and qubits are numbered from 0 as in the source; the device edge  *)
(* list and the per-qubit interaction lists are sequences indexed from 1,  *)
(* so the source's circuit[q][k] is circuit[q][k + 1] here.                *)
(***************************************************************************)
EXTENDS Integers, Sequences, FiniteSets, TLC

VARIABLES
    device,            \* DeviceTopology: [nodes |-> N, edges |-> <<<<n1, n2>>, ...>>]
    circuit,           \* CircuitRepDQN.circuit: qubit -> sequence of target qubits
    node_to_qubit,     \* CircuitStateDQN._node_to_qubit
    qubit_targets,     \* CircuitStateDQN._qubit_targets (-1: no pending target)
    circuit_progress,  \* CircuitStateDQN._circuit_progress
    locked_edges,      \* CircuitStateDQN._locked_edges (integer counters)
    op,                \* the operation performed last
    arg,               \* the solution / mask it was given
    raised,            \* whether it ended by raising an error
    gates,             \* the gates_being_executed list it returned
    sa_pc,             \* simulated_annealing: "idle", "loop", "returned" or "raised"
    search_limit,      \* simulated_annealing: the search_limit argument
    temp,              \* simulated_annealing: temp, as the bounds [lo, hi] enclosing it
    current_solution,  \* simulated_annealing: current_solution
    current_energy,    \* simulated_annealing: current_energy
    best_solution,     \* simulated_annealing: best_solution
    best_energy,       \* simulated_annealing: best_energy
    new_energy,        \* simulated_annealing: new_energy
    iterations,        \* simulated_annealing: iterations
    proposals,         \* number of get_neighbour_solution calls made
    energy_calls,      \* number of get_energy calls made
    result,            \* the (solution, energy) pair returned
    entry_state,       \* the four state fields as they were at the call
    copy_state,        \* a second CircuitStateDQN made by copy.copy, or NoCopy
    selected_swappable, \* swappable_edges: whether an edge the solution already
                       \* selects is listed (so that flipping it takes it out)
    ep_pc,             \* train_step: "idle", "running", "returned" or "raised"
    training_steps,    \* train_step: the training_steps argument
    time,              \* train_step: number of steps applied so far
    done,              \* train_step: the done flag of the last step
    solution_start,    \* train_step: solution_start
    solution_moments,  \* train_step: solution_moments
    returned           \* train_step: the value returned

stateVars == <<node_to_qubit, qubit_targets, circuit_progress, locked_edges>>
traceVars == <<op, arg, raised, gates>>
saVars == <<sa_pc, search_limit, temp, current_solution, current_energy,
            best_solution, best_energy, new_energy, iterations, proposals,
            energy_calls, result, entry_state>>
vars == <<device, circuit, node_to_qubit, qubit_targets, circuit_progress,
          locked_edges, op, arg, raised, gates,
          sa_pc, search_limit, temp, current_solution, current_energy,
          best_solution, best_energy, new_energy, iterations, proposals,
          energy_calls, result, entry_state, copy_state, selected_swappable,
          ep_pc, training_steps, time, done, solution_start, solution_moments,
          returned>>
epVars == <<ep_pc, training_steps, time, done, solution_start, solution_moments,
            returned>>

----------------------------------------------------------------------------
(* Bounds of the model *)

MaxGates == 2        \* longest circuit (number of two-qubit gates)
MaxLock == 2         \* largest lock counter explored
MaxMultiplier == 2   \* largest multiplier passed to update_locks
MaxEnergy == 1       \* the energy oracle answers in 0 .. MaxEnergy
MaxSearchLimit == 1  \* largest search_limit passed to simulated_annealing
MaxTrainingSteps == 3 \* largest training_steps passed to train_step

----------------------------------------------------------------------------
(* Devices and circuits (external collaborators, read-only) *)

Line2     == [nodes |-> 2, edges |-> << <<0, 1>> >>]
Path3     == [nodes |-> 3, edges |-> << <<0, 1>>, <<1, 2>> >>]
Path4     == [nodes |-> 4, edges |-> << <<0, 1>>, <<1, 2>>, <<2, 3>> >>]

SmallDevices == {Line2, Path3}
WideDevices  == {Path4}

Nodes(dev) == 0 .. (dev.nodes - 1)
EdgeIndices(dev) == 1 .. Len(dev.edges)

\* A gate is an unordered pair of distinct qubits
GatePairs(n) == {g \in (0 .. n - 1) \X (0 .. n - 1) : g[1] < g[2]}

GateLists(n) == UNION {[1 .. k -> GatePairs(n)] : k \in 0 .. MaxGates}

Partner(g, q) == IF g[1] = q THEN g[2] ELSE g[1]

\* The per-qubit interaction lists of a gate list: for each qubit, the
\* partners of the gates it takes part in, in circuit order
CircuitOf(gl, n) ==
    [q \in 0 .. n - 1 |->
        LET mine == SelectSeq(gl, LAMBDA g : g[1] = q \/ g[2] = q)
        IN  [k \in 1 .. Len(mine) |-> Partner(mine[k], q)]]

Circuits(n) == {CircuitOf(gl, n) : gl \in GateLists(n)}

\* device.allocate(circuit): some permutation of the qubits over the nodes
Mappings(n) ==
    {f \in [0 .. n - 1 -> 0 .. n - 1] : \A a, b \in 0 .. n - 1 : f[a] = f[b] => a = b}

\* Boolean vectors over the device edges, as 0/1
Solutions(dev) == [EdgeIndices(dev) -> {0, 1}]

----------------------------------------------------------------------------
(* CircuitStateDQN *)

\* The four mutable fields of the live state, as one value
State == [node_to_qubit |-> node_to_qubit, qubit_targets |-> qubit_targets,
          circuit_progress |-> circuit_progress, locked_edges |-> locked_edges]

\* __init__, default qubit_targets: the first target of each qubit, or -1
InitialTargets(circ) ==
    [q \in DOMAIN circ |-> IF Len(circ[q]) > 0 THEN circ[q][1] ELSE -1]

\* __init__ with only circuit, device and the allocated mapping given
NewState(dev, circ, mapping) ==
    [node_to_qubit |-> mapping,
     qubit_targets |-> InitialTargets(circ),
     circuit_progress |-> [q \in Nodes(dev) |-> 0],
     locked_edges |-> [e \in EdgeIndices(dev) |-> 0]]

\* A mutant of SwapPair: the two assignments done one after the other
SwapPairOverwrite(n2q, node1, node2) ==
    [n2q EXCEPT ![node1] = n2q[node2], ![node2] = n2q[node2]]

\* execute_swap, the tuple assignment exchanging the qubits at two nodes
SwapPair(n2q, node1, node2) ==
    [n2q EXCEPT ![node1] = n2q[node2], ![node2] = n2q[node1]]

\* execute_swap, the loop over zip(edges, solution) from edge index i on
RECURSIVE SwapLoop(_, _, _)
SwapLoop(n2q, solution, i) ==
    IF i > Len(device.edges) THEN n2q
    ELSE IF solution[i] # 0
         THEN SwapLoop(SwapPair(n2q, device.edges[i][1], device.edges[i][2]),
                       solution, i + 1)
         ELSE SwapLoop(n2q, solution, i + 1)

\* A mutant of execute_swap: the list returned, the mapping left as it was
execute_swap_unapplied(st, solution) ==
    [state |-> st,
     gates |-> SelectSeq(device.edges,
                         LAMBDA e : \E i \in EdgeIndices(device) :
                                        device.edges[i] = e /\ solution[i] # 0)]

\* execute_swap: the state after it and the list it returns
execute_swap(st, solution) ==
    [state |-> [st EXCEPT !.node_to_qubit = SwapLoop(st.node_to_qubit, solution, 1)],
     gates |-> SelectSeq(device.edges,
                         LAMBDA e : \E i \in EdgeIndices(device) :
                                        device.edges[i] = e /\ solution[i] # 0)]

\* A mutant of CnotReady: the skip test taken the wrong way round
CnotReadyInverted(targets, q1, q2) ==
    targets[q1] # q2 \/ targets[q2] # q1

\* A mutant of CnotReady: one-sided match (the skip test with "and" for "or")
CnotReadyEither(targets, q1, q2) ==
    targets[q1] = q2 \/ targets[q2] = q1

\* execute_cnot, the test that lets an edge fire (negation of the continue test)
CnotReady(targets, q1, q2) ==
    ~(targets[q1] # q2 \/ targets[q2] # q1)

\* A mutant of Advance: only the first qubit of the pair moves on
AdvanceFirstOnly(progress, q1, q2) ==
    [progress EXCEPT ![q1] = @ + 1]

\* execute_cnot, the two increments of circuit_progress for a fired pair
Advance(progress, q1, q2) ==
    LET p1 == [progress EXCEPT ![q1] = @ + 1]
    IN  [p1 EXCEPT ![q2] = @ + 1]

\* execute_cnot, the loop over the device edges from edge index i on;
\* acc is [progress, gates]
RECURSIVE CnotLoop(_, _, _, _)
CnotLoop(n2q, targets, acc, i) ==
    IF i > Len(device.edges) THEN acc
    ELSE LET n1 == device.edges[i][1]
             n2 == device.edges[i][2]
             q1 == n2q[n1]
             q2 == n2q[n2]
         IN  IF CnotReady(targets, q1, q2)
             THEN CnotLoop(n2q, targets,
                           [progress |-> Advance(acc.progress, q1, q2),
                            gates |-> Append(acc.gates, <<n1, n2>>)],
                           i + 1)
             ELSE CnotLoop(n2q, targets, acc, i + 1)

\* A mutant of NextTarget: past the end of the list its last entry is read
\* again, where -1 should be given
NextTargetClamped(circ, q, progress) ==
    IF Len(circ[q]) = 0 THEN -1
    ELSE IF progress < Len(circ[q]) THEN circ[q][progress + 1]
    ELSE circ[q][Len(circ[q])]

\* A mutant of NextTarget: the bound test off by one
NextTargetShort(circ, q, progress) ==
    IF progress < Len(circ[q]) - 1 THEN circ[q][progress + 1] ELSE -1

\* execute_cnot, the target of qubit q at the given progress
NextTarget(circ, q, progress) ==
    IF progress < Len(circ[q]) THEN circ[q][progress + 1] ELSE -1

\* execute_cnot: the state after it and the list it returns
execute_cnot(st) ==
    LET r == CnotLoop(st.node_to_qubit, st.qubit_targets,
                      [progress |-> st.circuit_progress, gates |-> <<>>], 1)
    IN  [state |-> [st EXCEPT
                       !.circuit_progress = r.progress,
                       !.qubit_targets =
                           [q \in Nodes(device) |-> NextTarget(circuit, q, r.progress[q])]],
         gates |-> r.gates]

\* is_done
is_done(st) == \A q \in DOMAIN st.qubit_targets : st.qubit_targets[q] = -1

\* The remaining_targets property: per qubit, the interactions still to do
remaining_targets(st) ==
    [q \in DOMAIN st.circuit_progress |-> Len(circuit[q]) - st.circuit_progress[q]]

\* A mutant of update_locks_decay: the decrement without the floor at zero
update_locks_decay_unfloored(st) ==
    [st EXCEPT !.locked_edges =
        [e \in DOMAIN st.locked_edges |-> st.locked_edges[e] - 1]]

\* update_locks with mask None
update_locks_decay(st) ==
    [st EXCEPT !.locked_edges =
        [e \in DOMAIN st.locked_edges |->
            st.locked_edges[e] - (IF st.locked_edges[e] > 0 THEN 1 ELSE 0)]]

\* A mutant of update_locks_mask: the multiplier added off the mask
update_locks_mask_inverted(st, mask, multiplier) ==
    [st EXCEPT !.locked_edges =
        [e \in DOMAIN st.locked_edges |->
            st.locked_edges[e] + (IF mask[e] # 0 THEN 0 ELSE 1) * multiplier]]

\* A mutant of update_locks_mask: the multiplier added at every position
update_locks_mask_everywhere(st, mask, multiplier) ==
    [st EXCEPT !.locked_edges =
        [e \in DOMAIN st.locked_edges |-> st.locked_edges[e] + multiplier]]

\* update_locks with a mask and a multiplier
update_locks_mask(st, mask, multiplier) ==
    [st EXCEPT !.locked_edges =
        [e \in DOMAIN st.locked_edges |->
            st.locked_edges[e] + (IF mask[e] # 0 THEN 1 ELSE 0) * multiplier]]

\* the locked_edges property: the mask of edges with a positive counter
LockedMask(st) == [e \in DOMAIN st.locked_edges |-> st.locked_edges[e] > 0]

\* device.distances[n1, n2]: the number of edges on a shortest path
RECURSIVE Within(_, _, _)
Within(dev, n, k) ==
    IF k = 0 THEN {n}
    ELSE LET near == Within(dev, n, k - 1)
         IN  near \cup {m \in Nodes(dev) :
                          \E i \in EdgeIndices(dev) :
                              \/ dev.edges[i][1] \in near /\ dev.edges[i][2] = m
                              \/ dev.edges[i][2] \in near /\ dev.edges[i][1] = m}

distances(dev, n1, n2) ==
    CHOOSE k \in 0 .. dev.nodes :
        /\ n2 \in Within(dev, n1, k)
        /\ \A j \in 0 .. k - 1 : n2 \notin Within(dev, n1, j)

\* The qubit_to_node array built from node_to_qubit
qubit_to_node(st) ==
    [q \in DOMAIN st.node_to_qubit |->
        CHOOSE n \in DOMAIN st.node_to_qubit : st.node_to_qubit[n] = q]

\* a[k] for a numpy array of length len: a negative k counts from the end
Item(a, len, k) == IF k < 0 THEN a[k + len] ELSE a[k]

\* The target_distance property: for each qubit i with target v,
\* distances[qubit_to_node[i], qubit_to_node[v]], the target -1 included
target_distance(st) ==
    LET q2n == qubit_to_node(st)
        len == Cardinality(DOMAIN st.node_to_qubit)
    IN  [i \in DOMAIN st.qubit_targets |->
            distances(device, q2n[i], Item(q2n, len, st.qubit_targets[i]))]

\* The names of the four array fields
Fields == {"node_to_qubit", "qubit_targets", "circuit_progress", "locked_edges"}

\* A mutant of copy_of: a shallow copy, every array shared with the original
copy_of_shallow(st) == [state |-> st, shared |-> Fields]

\* __copy__: the contents of the new object's four fields, and the fields
\* whose array it shares with the original (none: each goes through np.copy)
copy_of(st) == [state |-> st, shared |-> {}]

\* __eq__: the four fields compared
eq(a, b) ==
    /\ a.node_to_qubit = b.node_to_qubit
    /\ a.qubit_targets = b.qubit_targets
    /\ a.circuit_progress = b.circuit_progress
    /\ a.locked_edges = b.locked_edges

\* The fields of an object after an in-place operation left another object
\* with the fields new: the arrays the two share hold the new contents
Aliased(other, shared, new) ==
    [f \in Fields |-> IF f \in shared THEN new[f] ELSE other[f]]

----------------------------------------------------------------------------
(* The transition function, step(action, state) of qroute/environment/env.py *)

\* The lock duration given to the edges swapped in a step
LockDuration == 1

\* Some selected edge is currently locked
SelectsLocked(st, solution) ==
    \E e \in DOMAIN st.locked_edges : solution[e] # 0 /\ st.locked_edges[e] > 0

\* Two distinct selected edges share a node
SharesNode(solution) ==
    \E i, j \in EdgeIndices(device) :
        /\ i < j /\ solution[i] # 0 /\ solution[j] # 0
        /\ {device.edges[i][1], device.edges[i][2]}
               \cap {device.edges[j][1], device.edges[j][2]} # {}

\* step: reject an invalid action, else work on a copy of the input state:
\* swaps, ready interactions, lock decay, locks on the swapped edges.
\* input is the state object passed in as the call leaves it, next the
\* state returned.
step(action, st) ==
    IF SelectsLocked(st, action) \/ SharesNode(action)
    THEN [raised |-> TRUE, input |-> st, next |-> st,
          swaps |-> <<>>, cnots |-> <<>>, done |-> FALSE]
    ELSE LET copied  == copy_of(st)
             swapped == execute_swap(copied.state, action)
             fired   == execute_cnot(swapped.state)
             decayed == update_locks_decay(fired.state)
             locked  == update_locks_mask(decayed, action, LockDuration)
         IN  [raised |-> FALSE,
              input |-> Aliased(st, copied.shared, locked),
              next |-> locked,
              swaps |-> swapped.gates, cnots |-> fired.gates,
              done |-> is_done(locked)]

----------------------------------------------------------------------------
(* AnnealerDQN *)

\* __init__: the temperatures, in millionths of a unit
initial_temperature == 60000000
min_temperature == 100000

\* search_limit=None
NoLimit == -1

\* The answers of the energy oracle (the agent's value estimate, negated)
Energies == 0 .. MaxEnergy

\* A mutant of Cool: the product computed but the temperature left as it was
CoolNone(t) == t

\* temp * cooling_multiplier with cooling_multiplier = 0.95 = 19/20. The
\* floating-point product lies within one millionth of the exact one, so
\* the bounds are rounded outwards by one more unit at every step.
Cool(t) ==
    [lo |-> (t.lo * 19) \div 20 - 1,
     hi |-> (t.hi * 19 + 19) \div 20 + 1]

\* temp > min_temperature can be true / can be false for a value in the bounds
MayContinue(t) == t.hi > min_temperature
MayExit(t) == t.lo <= min_temperature

ZeroSolution == [e \in EdgeIndices(device) |-> 0]

\* x = (x + 1) % 2 at one edge index
Flip(solution, i) == [solution EXCEPT ![i] = (@ + 1) % 2]

\* state.swappable_edges(solution): the indices of the edges that are not
\* locked and have no endpoint on a different selected edge. Whether an edge
\* the solution already selects is among them is left open: the rule names
\* it eligible (flipping it takes it out of the solution), the error raised
\* past a non-empty initial candidate needs it not to be.
swappable_edges(st, solution) ==
    {i \in EdgeIndices(device) :
        /\ ~(st.locked_edges[i] > 0)
        /\ solution[i] # 0 => selected_swappable
        /\ \A j \in EdgeIndices(device) :
               (j # i /\ solution[j] # 0) =>
                   {device.edges[i][1], device.edges[i][2]}
                       \cap {device.edges[j][1], device.edges[j][2]} = {}}

\* state.protected_edges: the mask of the edges that may not be swapped
protected_edges(st) == LockedMask(st)

\* check_valid_solution: TRUE when it returns, FALSE when it raises
check_valid_solution(solution, forced_mask) ==
    /\ ~\E i \in DOMAIN solution : forced_mask[i] /\ solution[i] = 1
    /\ LET swap_edge_indices == {i \in DOMAIN solution : solution[i] = 1}
       IN  /\ \A i \in swap_edge_indices : device.edges[i][1] # device.edges[i][2]
           /\ \A i, j \in swap_edge_indices :
                  i # j => {device.edges[i][1], device.edges[i][2]}
                               \cap {device.edges[j][1], device.edges[j][2]} = {}

\* A mutant of generate_initial_solution: the edge drawn among all the edges
generate_initial_solution_any_edge(st) ==
    IF swappable_edges(st, ZeroSolution) = {}
    THEN {ZeroSolution}
    ELSE {Flip(ZeroSolution, i) : i \in EdgeIndices(device)}

\* A mutant of generate_initial_solution: every available edge selected
generate_initial_solution_all(st) ==
    {[e \in EdgeIndices(device) |->
         IF e \in swappable_edges(st, ZeroSolution) THEN 1 ELSE 0]}

\* generate_initial_solution: the solutions it can return
generate_initial_solution(st) ==
    LET available_edges == swappable_edges(st, ZeroSolution)
    IN  IF available_edges = {}
        THEN {ZeroSolution}
        ELSE {Flip(ZeroSolution, i) : i \in available_edges}

\* A mutant of get_neighbour_solution: with no edge available the solution
\* passed in is returned instead of the error being raised
get_neighbour_solution_no_raise(solution, st) ==
    LET available_edges == swappable_edges(st, solution)
    IN  IF available_edges = {}
        THEN {[raised |-> FALSE, solution |-> solution, current |-> solution]}
        ELSE {[raised |-> ~check_valid_solution(Flip(solution, i), protected_edges(st)),
               solution |-> Flip(solution, i),
               current |-> solution] : i \in available_edges}

\* A mutant of get_neighbour_solution: the flip made on the array passed in
get_neighbour_solution_in_place(solution, st) ==
    LET available_edges == swappable_edges(st, solution)
    IN  IF available_edges = {}
        THEN {[raised |-> TRUE, solution |-> solution, current |-> solution]}
        ELSE {[raised |-> ~check_valid_solution(Flip(solution, i), protected_edges(st)),
               solution |-> Flip(solution, i),
               current |-> Flip(solution, i)] : i \in available_edges}

\* get_neighbour_solution: its possible outcomes, a raise or a neighbour.
\* solution is the array returned (the copy made on entry, with one
\* position flipped), current the array passed in as the call leaves it.
get_neighbour_solution(solution, st) ==
    LET available_edges == swappable_edges(st, solution)
    IN  IF available_edges = {}
        THEN {[raised |-> TRUE, solution |-> solution, current |-> solution]}
        ELSE {[raised |-> ~check_valid_solution(Flip(solution, i), protected_edges(st)),
               solution |-> Flip(solution, i),
               current |-> solution] : i \in available_edges}

\* A mutant of get_energy: the candidate applied to current_state itself
get_energy_in_place(solution, st) ==
    [raised |-> step(solution, st).raised, state |-> step(solution, st).next]

\* get_energy: step(solution, current_state), then the oracle on the result.
\* raised: step rejected the solution; state: current_state after the call.
get_energy(solution, st) ==
    [raised |-> step(solution, st).raised, state |-> step(solution, st).input]

\* A mutant of AcceptOutcomes: only a strictly lower energy is sure to be
\* accepted (the probability of an equal one taken below 1)
AcceptOutcomesStrict(cur_energy, next_energy) ==
    IF next_energy < cur_energy THEN {TRUE} ELSE {TRUE, FALSE}

\* acceptance_probability(...) > np.random.random(): the outcomes the draw
\* allows. The probability is 1 for a lower energy, exp(0) = 1 for an equal
\* one, and strictly between 0 and 1 for a higher one; the draw is in [0, 1).
AcceptOutcomes(cur_energy, next_energy) ==
    IF next_energy < cur_energy THEN {TRUE}
    ELSE IF next_energy - cur_energy = 0 THEN {TRUE}
    ELSE {TRUE, FALSE}

\* A mutant of IsNewBest: the comparison the wrong way round
IsNewBestInverted(energy, best) == energy > best

\* if current_energy < best_energy, taken after an acceptance
IsNewBest(energy, best) == energy < best

\* A mutant of IsAllZero: the degenerate test inverted
IsAllOne(solution) == \A e \in DOMAIN solution : solution[e] = 1

\* np.all(current_solution == 0)
IsAllZero(solution) == \A e \in DOMAIN solution : solution[e] = 0

NoResult == <<>>

\* No search running
SearchIdle ==
    /\ sa_pc = "idle"
    /\ search_limit = NoLimit
    /\ temp = [lo |-> 0, hi |-> 0]
    /\ current_solution = <<>>
    /\ current_energy = 0
    /\ best_solution = <<>>
    /\ best_energy = 0
    /\ new_energy = 0
    /\ iterations = 0
    /\ proposals = 0
    /\ energy_calls = 0
    /\ result = NoResult
    /\ entry_state = <<>>

NoCopy == <<>>

\* No episode running
EpisodeIdle ==
    /\ ep_pc = "idle"
    /\ training_steps = 0
    /\ time = 0
    /\ done = FALSE
    /\ solution_start = <<>>
    /\ solution_moments = <<>>
    /\ returned = NoResult

----------------------------------------------------------------------------
(* Operations on the live state *)

SetState(st) ==
    /\ node_to_qubit' = st.node_to_qubit
    /\ qubit_targets' = st.qubit_targets
    /\ circuit_progress' = st.circuit_progress
    /\ locked_edges' = st.locked_edges

NoArg == <<>>

\* An in-place operation on the original reaches the copy through the
\* arrays the two share
CopyFollows ==
    copy_state' = IF copy_state = NoCopy THEN NoCopy
                  ELSE [copy_state EXCEPT
                           !.state = Aliased(@, copy_state.shared, State')]

ExecuteSwap ==
    \E solution \in Solutions(device) :
        LET r == execute_swap(State, solution)
        IN  /\ SetState(r.state)
            /\ op' = "execute_swap"
            /\ arg' = solution
            /\ raised' = FALSE
            /\ gates' = r.gates
            /\ UNCHANGED <<device, circuit, selected_swappable, epVars>>
            /\ UNCHANGED saVars
            /\ CopyFollows

ExecuteCnot ==
    LET r == execute_cnot(State)
    IN  /\ SetState(r.state)
        /\ op' = "execute_cnot"
        /\ arg' = NoArg
        /\ raised' = FALSE
        /\ gates' = r.gates
        /\ UNCHANGED <<device, circuit, selected_swappable, epVars>>
        /\ UNCHANGED saVars
        /\ CopyFollows

UpdateLocksDecay ==
    /\ SetState(update_locks_decay(State))
    /\ op' = "update_locks"
    /\ arg' = NoArg
    /\ raised' = FALSE
    /\ gates' = <<>>
    /\ UNCHANGED <<device, circuit, selected_swappable, epVars>>
    /\ UNCHANGED saVars
    /\ CopyFollows

UpdateLocksMask ==
    \E mask \in Solutions(device), multiplier \in 0 .. MaxMultiplier :
        /\ \A e \in EdgeIndices(device) :
               locked_edges[e] + mask[e] * multiplier <= MaxLock
        /\ SetState(update_locks_mask(State, mask, multiplier))
        /\ op' = "update_locks_mask"
        /\ arg' = [mask |-> mask, multiplier |-> multiplier]
        /\ raised' = FALSE
        /\ gates' = <<>>
        /\ UNCHANGED <<device, circuit, selected_swappable, epVars>>
        /\ UNCHANGED saVars
        /\ CopyFollows

\* state = step(action, state), for any action
StepAction ==
    \E action \in Solutions(device) :
        LET r == step(action, State)
        IN  /\ SetState(r.next)
            /\ op' = "step"
            /\ arg' = action
            /\ raised' = r.raised
            /\ gates' = r.cnots
            /\ UNCHANGED <<device, circuit, selected_swappable, epVars>>
            /\ UNCHANGED saVars
            /\ UNCHANGED copy_state

----------------------------------------------------------------------------
(* A copy of the live state, and the operations applied to the copy *)

\* copy.copy(state)
MakeCopy ==
    /\ copy_state = NoCopy
    /\ copy_state' = [state |-> copy_of(State).state,
                      shared |-> copy_of(State).shared,
                      circuit |-> circuit, device |-> device]
    /\ op' = "__copy__"
    /\ arg' = NoArg
    /\ raised' = FALSE
    /\ gates' = <<>>
    /\ UNCHANGED <<device, circuit, selected_swappable, epVars, stateVars>>
    /\ UNCHANGED saVars

\* An operation on the copy leaving it with the fields new: the original
\* sees it through the arrays the two share
OnCopy(name, argument, new, executed) ==
    /\ copy_state' = [copy_state EXCEPT !.state = new]
    /\ SetState(Aliased(State, copy_state.shared, new))
    /\ op' = name
    /\ arg' = argument
    /\ raised' = FALSE
    /\ gates' = executed
    /\ UNCHANGED <<device, circuit, selected_swappable, epVars>>
    /\ UNCHANGED saVars

CopyExecuteSwap ==
    /\ copy_state # NoCopy
    /\ \E solution \in Solutions(device) :
           LET r == execute_swap(copy_state.state, solution)
           IN  OnCopy("copy.execute_swap", solution, r.state, r.gates)

CopyExecuteCnot ==
    /\ copy_state # NoCopy
    /\ LET r == execute_cnot(copy_state.state)
       IN  OnCopy("copy.execute_cnot", NoArg, r.state, r.gates)

CopyUpdateLocksDecay ==
    /\ copy_state # NoCopy
    /\ OnCopy("copy.update_locks", NoArg, update_locks_decay(copy_state.state), <<>>)

CopyUpdateLocksMask ==
    /\ copy_state # NoCopy
    /\ \E mask \in Solutions(device), multiplier \in 0 .. MaxMultiplier :
           /\ \A e \in EdgeIndices(device) :
                  copy_state.state.locked_edges[e] + mask[e] * multiplier <= MaxLock
           /\ OnCopy("copy.update_locks_mask",
                     [mask |-> mask, multiplier |-> multiplier],
                     update_locks_mask(copy_state.state, mask, multiplier), <<>>)

----------------------------------------------------------------------------
(* simulated_annealing(current_state, action_chooser, search_limit) *)

\* return best_solution, best_energy
ReturnBest ==
    /\ sa_pc' = "returned"
    /\ result' = [solution |-> best_solution, energy |-> best_energy]
    /\ UNCHANGED <<search_limit, temp, current_solution, current_energy,
                   best_solution, best_energy, new_energy, iterations, proposals,
                   energy_calls, entry_state>>
    /\ UNCHANGED <<device, circuit, selected_swappable, epVars, stateVars, traceVars, copy_state>>

\* The call up to the loop: the initial candidate, the early return on the
\* all-zero candidate (with energy -inf or 0 by action_chooser, kept as
\* text), the first energy
SAStart ==
    /\ sa_pc = "idle"
    /\ \E limit \in {NoLimit} \cup (0 .. MaxSearchLimit),
          action_chooser \in {"model", "target"},
          initial \in generate_initial_solution(State),
          energy \in Energies :
        LET e == get_energy(initial, State)
        IN  /\ search_limit' = limit
            /\ entry_state' = State
            /\ current_solution' = initial
            /\ IF IsAllZero(initial)
               THEN /\ sa_pc' = "returned"
                    /\ result' = [solution |-> initial,
                                  energy |-> IF action_chooser = "model"
                                             THEN "-inf" ELSE "0"]
                    /\ UNCHANGED <<temp, current_energy, best_solution,
                                   best_energy, energy_calls>>
                    /\ UNCHANGED stateVars
               ELSE /\ energy_calls' = energy_calls + 1
                    /\ SetState(e.state)
                    /\ temp' = [lo |-> initial_temperature, hi |-> initial_temperature]
                    /\ result' = result
                    /\ IF e.raised
                       THEN /\ sa_pc' = "raised"
                            /\ UNCHANGED <<current_energy, best_solution, best_energy>>
                       ELSE /\ sa_pc' = "loop"
                            /\ current_energy' = energy
                            /\ best_solution' = initial
                            /\ best_energy' = energy
    /\ UNCHANGED <<iterations, proposals, new_energy>>
    /\ UNCHANGED <<device, circuit, selected_swappable, epVars, traceVars, copy_state>>

\* One pass through the loop body. iterations_since_best is written but
\* never read by the search, and is left out.
SAIterate ==
    /\ sa_pc = "loop"
    /\ MayContinue(temp)
    /\ ~(search_limit # NoLimit /\ iterations > search_limit)
    /\ \E n \in get_neighbour_solution(current_solution, State),
          energy \in Energies :
      \E accept \in AcceptOutcomes(current_energy, energy) :
        LET e == get_energy(n.solution, State)
        IN  /\ proposals' = proposals + 1
            /\ IF n.raised
               THEN /\ sa_pc' = "raised"
                    /\ UNCHANGED <<temp, current_solution, current_energy,
                                   best_solution, best_energy, new_energy,
                                   iterations, energy_calls>>
                    /\ UNCHANGED stateVars
               ELSE /\ energy_calls' = energy_calls + 1
                    /\ SetState(e.state)
                    /\ IF e.raised
                       THEN /\ sa_pc' = "raised"
                            /\ UNCHANGED <<temp, current_solution, current_energy,
                                           best_solution, best_energy, new_energy,
                                           iterations>>
                       ELSE /\ sa_pc' = "loop"
                            /\ new_energy' = energy
                            /\ current_solution' = IF accept THEN n.solution
                                                   ELSE n.current
                            /\ current_energy' = IF accept THEN energy
                                                 ELSE current_energy
                            /\ best_solution' = IF accept /\ IsNewBest(energy, best_energy)
                                                THEN n.solution ELSE best_solution
                            /\ best_energy' = IF accept /\ IsNewBest(energy, best_energy)
                                              THEN energy ELSE best_energy
                            /\ temp' = Cool(temp)
                            /\ iterations' = iterations + 1
    /\ UNCHANGED <<search_limit, result, entry_state>>
    /\ UNCHANGED <<device, circuit, selected_swappable, epVars, traceVars, copy_state>>

\* The break on the iteration budget
SABreak ==
    /\ sa_pc = "loop"
    /\ MayContinue(temp)
    /\ search_limit # NoLimit /\ iterations > search_limit
    /\ ReturnBest

\* The loop condition temp > min_temperature fails
SAExit ==
    /\ sa_pc = "loop"
    /\ MayExit(temp)
    /\ ReturnBest

----------------------------------------------------------------------------
(* train_step(agent, device, circuit, training_steps, episode_name) *)

\* The value of a plain return statement
None == "None"

\* debugging_output of a step: the swaps and the interactions it executed
Moment(r) == [swaps |-> r.swaps, cnots |-> r.cnots]

\* return solution_start, solution_moments, flag
Triple(start, moments, flag) ==
    [solution_start |-> start, solution_moments |-> moments, flag |-> flag]

\* The call up to the loop: the state is constructed (the state the episode
\* specification starts in), the all-False step is applied, and when it
\* reports done the message is formatted with "%03d" % episode_name, which
\* raises TypeError for a name that is a string, and a plain return follows
EpisodeBegin ==
    /\ ep_pc = "idle"
    /\ \E steps \in 1 .. MaxTrainingSteps, episode_name \in {"str", "int"} :
        LET r == step(ZeroSolution, State)
        IN  /\ training_steps' = steps
            /\ solution_start' = node_to_qubit
            /\ solution_moments' = << Moment(r) >>
            /\ SetState(r.next)
            /\ op' = "step"
            /\ arg' = ZeroSolution
            /\ raised' = r.raised
            /\ gates' = r.cnots
            /\ time' = 1
            /\ done' = r.done
            /\ IF r.done
               THEN IF episode_name = "str"
                    THEN ep_pc' = "raised" /\ returned' = NoResult
                    ELSE ep_pc' = "returned" /\ returned' = None
               ELSE ep_pc' = "running" /\ returned' = NoResult
    /\ UNCHANGED <<device, circuit, selected_swappable, copy_state>>
    /\ UNCHANGED saVars

\* One pass through the loop body, for time + 1 in range(2, training_steps + 1):
\* the agent's action, the assertion on the locked edges, the step, and
\* the return when it reports done
EpisodeStep ==
    /\ ep_pc = "running"
    /\ time + 1 <= training_steps
    /\ \E action \in Solutions(device) :
        LET r == step(action, State)
        IN  /\ op' = "step"
            /\ arg' = action
            /\ IF SelectsLocked(State, action) \/ r.raised
               THEN /\ ep_pc' = "raised"
                    /\ raised' = TRUE
                    /\ UNCHANGED <<stateVars, gates, time, done, solution_moments,
                                   returned>>
               ELSE /\ SetState(r.next)
                    /\ raised' = FALSE
                    /\ gates' = r.cnots
                    /\ solution_moments' = Append(solution_moments, Moment(r))
                    /\ time' = time + 1
                    /\ done' = r.done
                    /\ IF r.done
                       THEN /\ ep_pc' = "returned"
                            /\ returned' = Triple(solution_start, solution_moments',
                                                  TRUE)
                       ELSE /\ ep_pc' = "running"
                            /\ returned' = NoResult
    /\ UNCHANGED <<device, circuit, selected_swappable, copy_state,
                   training_steps, solution_start>>
    /\ UNCHANGED saVars

\* The range is exhausted: return solution_start, solution_moments, False
EpisodeBudget ==
    /\ ep_pc = "running"
    /\ ~(time + 1 <= training_steps)
    /\ ep_pc' = "returned"
    /\ returned' = Triple(solution_start, solution_moments, FALSE)
    /\ UNCHANGED <<device, circuit, selected_swappable, copy_state, stateVars,
                   traceVars, training_steps, time, done, solution_start,
                   solution_moments>>
    /\ UNCHANGED saVars

----------------------------------------------------------------------------
(* Specifications *)

InitOn(devices) ==
    /\ device \in devices
    /\ circuit \in Circuits(device.nodes)
    /\ \E mapping \in Mappings(device.nodes) :
           LET st == NewState(device, circuit, mapping)
           IN  /\ node_to_qubit = st.node_to_qubit
               /\ qubit_targets = st.qubit_targets
               /\ circuit_progress = st.circuit_progress
               /\ locked_edges = st.locked_edges
    /\ op = "init"
    /\ arg = NoArg
    /\ raised = FALSE
    /\ gates = <<>>
    /\ SearchIdle
    /\ copy_state = NoCopy
    /\ EpisodeIdle
    /\ selected_swappable = TRUE

Init == InitOn(SmallDevices)

Next ==
    \/ ExecuteSwap
    \/ ExecuteCnot
    \/ UpdateLocksDecay
    \/ UpdateLocksMask
    \/ StepAction

Spec == Init /\ [][Next]_vars

\* Swaps and interaction batches alone, on the wider devices too
InitGates == InitOn(SmallDevices \cup WideDevices)

NextGates ==
    \/ ExecuteSwap
    \/ ExecuteCnot

SpecGates == InitGates /\ [][NextGates]_vars

\* The search, called once on a state of an episode
AnnealDevices == {Line2, Path3, Path4}

\* One interaction, between the first and the last qubit
AnnealCircuit(n) == CircuitOf(<< <<0, n - 1>> >>, n)

\* The identity mapping and the mapping shifted by one node
AnnealMappings(n) ==
    {[k \in 0 .. n - 1 |-> k], [k \in 0 .. n - 1 |-> (k + 1) % n]}

InitAnneal ==
    /\ device \in AnnealDevices
    /\ circuit = AnnealCircuit(device.nodes)
    /\ node_to_qubit \in AnnealMappings(device.nodes)
    /\ qubit_targets = InitialTargets(circuit)
    /\ circuit_progress = [q \in Nodes(device) |-> 0]
    /\ locked_edges \in [EdgeIndices(device) -> 0 .. LockDuration]
    /\ op = "init"
    /\ arg = NoArg
    /\ raised = FALSE
    /\ gates = <<>>
    /\ SearchIdle
    /\ copy_state = NoCopy
    /\ EpisodeIdle
    /\ selected_swappable \in BOOLEAN

NextAnneal ==
    \/ SAStart
    \/ SAIterate
    \/ SABreak
    \/ SAExit

SpecAnneal == InitAnneal /\ [][NextAnneal]_vars

\* A state and one copy of it, each operated on in any order, the copy made
\* at any point
CopyDevices == {Line2}

InitCopy ==
    /\ device \in CopyDevices
    /\ circuit = AnnealCircuit(device.nodes)
    /\ node_to_qubit \in Mappings(device.nodes)
    /\ qubit_targets = InitialTargets(circuit)
    /\ circuit_progress = [q \in Nodes(device) |-> 0]
    /\ locked_edges = [e \in EdgeIndices(device) |-> 0]
    /\ op = "init"
    /\ arg = NoArg
    /\ raised = FALSE
    /\ gates = <<>>
    /\ SearchIdle
    /\ copy_state = NoCopy
    /\ EpisodeIdle
    /\ selected_swappable = TRUE

NextCopy ==
    \/ MakeCopy
    \/ ExecuteSwap
    \/ ExecuteCnot
    \/ UpdateLocksDecay
    \/ UpdateLocksMask
    \/ CopyExecuteSwap
    \/ CopyExecuteCnot
    \/ CopyUpdateLocksDecay
    \/ CopyUpdateLocksMask

SpecCopy == InitCopy /\ [][NextCopy]_vars

\* One episode of train_step
NextEpisode ==
    \/ EpisodeBegin
    \/ EpisodeStep
    \/ EpisodeBudget

SpecEpisode == Init /\ [][NextEpisode]_vars

----------------------------------------------------------------------------
(* Properties *)

\* C1: in every reachable state node_to_qubit is a permutation of 0..N-1
C1_MappingIsPermutation ==
    /\ DOMAIN node_to_qubit = Nodes(device)
    /\ {node_to_qubit[n] : n \in Nodes(device)} = Nodes(device)

\* C1 witness: a swap along two edges sharing a node has moved the mapping
C1_Witness ==
    /\ op = "execute_swap"
    /\ SharesNode(arg)
    /\ \A n \in Nodes(device) : node_to_qubit[n] # n
    /\ C1_MappingIsPermutation

\* The edge with index i carries, before execute_cnot, two qubits that name
\* each other as next target
MutualAt(i) ==
    LET q1 == node_to_qubit[device.edges[i][1]]
        q2 == node_to_qubit[device.edges[i][2]]
    IN  qubit_targets[q1] = q2 /\ qubit_targets[q2] = q1

\* The qubits (placed as before the call) on the node pairs of a gate list
QubitsOn(gl) ==
    UNION {{node_to_qubit[gl[k][1]], node_to_qubit[gl[k][2]]} : k \in 1 .. Len(gl)}

\* C2: execute_cnot fires only on edges whose qubits name each other as
\* target; the progress of the qubits of every fired pair grows by exactly
\* one and no other progress changes; afterwards each target is the circuit
\* entry at the new progress, or -1 when the qubit's list is exhausted
C2_CnotFiresMutualPairs ==
    [][op' = "execute_cnot" =>
        /\ \A k \in 1 .. Len(gates') :
               \E i \in EdgeIndices(device) :
                   device.edges[i] = gates'[k] /\ MutualAt(i)
        /\ \A q \in Nodes(device) :
               circuit_progress'[q] =
                   circuit_progress[q] + (IF q \in QubitsOn(gates') THEN 1 ELSE 0)
        /\ \A q \in Nodes(device) :
               qubit_targets'[q] =
                   IF circuit_progress'[q] = Len(circuit[q]) THEN -1
                   ELSE circuit[q][circuit_progress'[q] + 1]
    ]_vars

\* C2 witness: two interactions fired in one execute_cnot call
C2_Witness ==
    /\ op = "execute_cnot"
    /\ Len(gates) = 2
    /\ \A q \in Nodes(device) : circuit_progress[q] = 1

\* C3: a qubit's target is -1 exactly when its progress equals the length
\* of its interaction list, so is_done holds exactly when every qubit's
\* progress equals that length
C3_SentinelIffExhausted ==
    /\ \A q \in Nodes(device) :
           (qubit_targets[q] = -1) <=> (circuit_progress[q] = Len(circuit[q]))
    /\ is_done(State) <=>
           \A q \in Nodes(device) : circuit_progress[q] = Len(circuit[q])

\* C3 witness: the circuit was completed by an interaction batch
C3_Witness ==
    /\ op = "execute_cnot"
    /\ is_done(State)
    /\ \E q \in Nodes(device) : circuit_progress[q] = MaxGates

\* C3 witness of the other side: after a batch some qubit is still pending
C3_WitnessPending ==
    /\ op = "execute_cnot"
    /\ Len(gates) > 0
    /\ ~is_done(State)

\* C5 (as claimed): a solution selecting a locked edge is never applied:
\* execute_swap and step raise and leave the four state fields unchanged
C5_LockedSwapRejected ==
    [][(op' \in {"execute_swap", "step"} /\ SelectsLocked(State, arg'))
           => (raised' /\ UNCHANGED stateVars)]_vars

\* C6 (as claimed): a solution selecting two edges that share a node is
\* rejected with an error, never applied
C6_SharedNodeSwapRejected ==
    (op \in {"execute_swap", "step"} /\ SharesNode(arg)) => raised


\* A solution that is a partial matching avoiding the locks of the state the
\* search was called on: no selected edge has a positive lock counter and no
\* two selected edges have a node in common
MatchingAvoidingLocks(solution) ==
    /\ \A i \in EdgeIndices(device) :
           solution[i] # 0 => entry_state.locked_edges[i] = 0
    /\ \A i, j \in EdgeIndices(device) :
           (i # j /\ solution[i] # 0 /\ solution[j] # 0) =>
               /\ device.edges[i][1] \notin {device.edges[j][1], device.edges[j][2]}
               /\ device.edges[i][2] \notin {device.edges[j][1], device.edges[j][2]}

\* C4: every candidate the search takes as current_solution or as
\* best_solution, and the solution it returns, is a partial matching that
\* avoids the locked edges
C4_CandidatesAreMatchings ==
    /\ sa_pc # "idle" => MatchingAvoidingLocks(current_solution)
    /\ sa_pc = "loop" => MatchingAvoidingLocks(best_solution)
    /\ sa_pc = "returned" => MatchingAvoidingLocks(result.solution)

\* C4 witness: with a locked edge in the state, the search returned a
\* solution of two disjoint edges
C4_Witness ==
    /\ sa_pc = "returned"
    /\ \E e \in EdgeIndices(device) : locked_edges[e] > 0
    /\ Cardinality({e \in EdgeIndices(device) : result.solution[e] = 1}) = 2

\* C7: the temperature strictly decreases at every loop iteration, and with
\* no iteration budget the loop runs at most 125 iterations
\* (= ceil(log(0.1 / 60) / log(0.95)))
C7_CoolingTerminates ==
    /\ [](search_limit = NoLimit => iterations <= 125)
    /\ [][iterations' = iterations + 1 => temp'.hi < temp.lo]_vars

\* C7 witness: a search without budget returned after exactly 125 iterations
C7_Witness ==
    /\ sa_pc = "returned"
    /\ search_limit = NoLimit
    /\ iterations = 125
    /\ temp.hi <= min_temperature

\* C8 (as claimed): with search_limit = 0 the loop body is never executed:
\* no neighbour is proposed and only the initial candidate's energy is
\* evaluated
C8_ZeroBudgetSkipsLoop ==
    (sa_pc # "idle" /\ search_limit = 0) =>
        (proposals = 0 /\ energy_calls <= 1 /\ iterations = 0)

\* C9: called on a state with no eligible edge, the search returns the
\* all-zero solution at once, as a normal result: the oracle is not called
\* and the loop is not entered
C9_NoEligibleEdgeReturnsZero ==
    (sa_pc # "idle" /\ swappable_edges(entry_state, ZeroSolution) = {}) =>
        /\ sa_pc = "returned"
        /\ result.solution = ZeroSolution
        /\ energy_calls = 0
        /\ proposals = 0
        /\ iterations = 0

\* C9 witness: the search returned on a state whose edges are all locked
C9_Witness ==
    /\ sa_pc = "returned"
    /\ \A e \in EdgeIndices(device) : locked_edges[e] > 0
    /\ result.solution = ZeroSolution
    /\ Len(device.edges) > 1

\* C10: the four fields of the state passed to the search are, at every
\* point of the search and at its return, as they were at the call
C10_SearchPreservesState ==
    sa_pc # "idle" => State = entry_state

\* C10 witness: the search returned after several energy evaluations, one
\* of them of a candidate whose application changes the mapping and the locks
C10_Witness ==
    /\ sa_pc = "returned"
    /\ energy_calls > 2
    /\ State = entry_state
    /\ step(result.solution, State).next.node_to_qubit # node_to_qubit
    /\ step(result.solution, State).next.locked_edges # locked_edges

\* The bounds on temp never leave the loop condition undecided
TempDecided == sa_pc = "loop" => ~(MayContinue(temp) /\ MayExit(temp))


OriginalOps == {"execute_swap", "execute_cnot", "update_locks", "update_locks_mask"}
CopyOps == {"copy.execute_swap", "copy.execute_cnot", "copy.update_locks",
            "copy.update_locks_mask"}

\* C11: a copy equals the original when it is made and refers to the same
\* circuit and device; afterwards no operation on the copy changes a field
\* of the original and no operation on the original changes a field of the
\* copy
C11_CopyIsIndependent ==
    [][/\ op' = "__copy__" =>
           /\ eq(copy_state'.state, State')
           /\ copy_state'.circuit = circuit /\ copy_state'.device = device
           /\ UNCHANGED stateVars
       /\ op' \in CopyOps =>
           /\ UNCHANGED stateVars
           /\ copy_state'.circuit = circuit /\ copy_state'.device = device
       /\ (op' \in OriginalOps /\ copy_state # NoCopy) =>
           copy_state' = copy_state
    ]_vars

\* C11 witness: after operations on both, the copy and the original differ
\* in each of the four fields
C11_Witness ==
    /\ copy_state # NoCopy
    /\ op \in CopyOps
    /\ copy_state.state.node_to_qubit # node_to_qubit
    /\ copy_state.state.qubit_targets # qubit_targets
    /\ copy_state.state.circuit_progress # circuit_progress
    /\ copy_state.state.locked_edges # locked_edges


\* C12: after a step that was not rejected every edge it swapped has a
\* positive lock counter, and of two steps taken one right after the other
\* (neither rejected) the second swaps no edge the first swapped
C12_SwappedEdgesAreLocked ==
    [][/\ (op' = "step" /\ ~raised') =>
           \A e \in EdgeIndices(device) : arg'[e] # 0 => locked_edges'[e] > 0
       /\ (op = "step" /\ ~raised /\ op' = "step" /\ ~raised') =>
           \A e \in EdgeIndices(device) : ~(arg[e] # 0 /\ arg'[e] # 0)
    ]_vars

\* C12 witness: a step swapped one edge of the path right after a step that
\* swapped the other one
C12_Witness ==
    /\ op = "step" /\ ~raised
    /\ device = Path3
    /\ arg[1] = 1 /\ arg[2] = 0
    /\ locked_edges[1] = 1 /\ locked_edges[2] = 0
    /\ node_to_qubit = [n \in Nodes(device) |-> (n + 2) % 3]

\* C13: every lock counter is >= 0 in every reachable state
C13_LocksNonNegative ==
    \A e \in EdgeIndices(device) : locked_edges[e] >= 0

\* C13 witness: a decay left one counter at zero next to a positive one
C13_Witness ==
    /\ op = "update_locks"
    /\ \E e, f \in EdgeIndices(device) :
           locked_edges[e] = 0 /\ locked_edges[f] = MaxLock - 1

\* C14: update_locks without a mask lowers each positive counter by one and
\* leaves the zero ones at zero (so an all-zero vector stays as it is); with
\* a mask it adds the multiplier at the masked positions and nowhere else;
\* neither form touches node_to_qubit, qubit_targets or circuit_progress
C14_UpdateLocksEffect ==
    [][/\ op' = "update_locks" =>
           /\ \A e \in EdgeIndices(device) :
                  locked_edges'[e] = IF locked_edges[e] > 0
                                     THEN locked_edges[e] - 1 ELSE 0
           /\ (\A e \in EdgeIndices(device) : locked_edges[e] = 0) =>
                  locked_edges' = locked_edges
           /\ UNCHANGED <<node_to_qubit, qubit_targets, circuit_progress>>
       /\ op' = "update_locks_mask" =>
           /\ \A e \in EdgeIndices(device) :
                  locked_edges'[e] = IF arg'.mask[e] # 0
                                     THEN locked_edges[e] + arg'.multiplier
                                     ELSE locked_edges[e]
           /\ UNCHANGED <<node_to_qubit, qubit_targets, circuit_progress>>
    ]_vars

\* C14 witness: a masked update added two to one counter and left a
\* positive counter off the mask as it was
C14_Witness ==
    /\ op = "update_locks_mask"
    /\ arg.multiplier = 2
    /\ \E e, f \in EdgeIndices(device) :
           /\ arg.mask[e] = 1 /\ locked_edges[e] = 2
           /\ arg.mask[f] = 0 /\ locked_edges[f] = 1

\* C15: on the 2-node device with the one interaction between qubits 0 and
\* 1, whichever way the two qubits are placed, the first step with the
\* all-zero solution is not rejected, swaps nothing, fires the interaction on
\* the edge and leaves a state that is done
C15_TwoNodeScenario ==
    [][(/\ op = "init"
        /\ device = Line2
        /\ circuit = AnnealCircuit(2)
        /\ op' = "step"
        /\ arg' = ZeroSolution) =>
           /\ ~raised'
           /\ step(arg', State).swaps = <<>>
           /\ node_to_qubit' = node_to_qubit
           /\ gates' = << <<0, 1>> >>
           /\ is_done(State')
    ]_vars

\* C15 witness: with qubit 0 on node 1 and qubit 1 on node 0, the all-zero
\* step fired the interaction and the circuit is done
C15_Witness ==
    /\ op = "step" /\ ~raised
    /\ device = Line2
    /\ circuit = AnnealCircuit(2)
    /\ arg = ZeroSolution
    /\ node_to_qubit[0] = 1 /\ node_to_qubit[1] = 0
    /\ gates = << <<0, 1>> >>
    /\ is_done(State)

\* On the 3-node path with no edge locked, the qubits on the two end nodes
\* name each other as next target
EndsMustInteract ==
    /\ device = Path3
    /\ \A e \in EdgeIndices(device) : locked_edges[e] = 0
    /\ qubit_targets[node_to_qubit[0]] = node_to_qubit[2]
    /\ qubit_targets[node_to_qubit[2]] = node_to_qubit[0]

\* C16: in that situation a step with the all-zero solution fires nothing;
\* the first move of the search can be either edge; and a step swapping one
\* edge alone, whichever, is accepted and fires in that same step exactly
\* the interaction of the two qubits that sat on the end nodes
C16_PathScenario ==
    [][EndsMustInteract =>
        /\ generate_initial_solution(State) =
               {Flip(ZeroSolution, 1), Flip(ZeroSolution, 2)}
        /\ (op' = "step" /\ arg' = ZeroSolution) =>
               (~raised' /\ gates' = <<>> /\ circuit_progress' = circuit_progress)
        /\ \A i \in EdgeIndices(device) :
               (op' = "step" /\ arg' = Flip(ZeroSolution, i)) =>
                   /\ ~raised'
                   /\ Len(gates') = 1
                   /\ {node_to_qubit'[gates'[1][1]], node_to_qubit'[gates'[1][2]]}
                          = {node_to_qubit[0], node_to_qubit[2]}
                   /\ \A q \in {node_to_qubit[0], node_to_qubit[2]} :
                          circuit_progress'[q] = circuit_progress[q] + 1
    ]_vars

\* C16 witness: a step swapping the edge 1-2 alone fired the one interaction
\* of the circuit, between qubits 0 and 2, on the edge 0-1
C16_Witness ==
    /\ op = "step" /\ ~raised
    /\ device = Path3
    /\ circuit = AnnealCircuit(3)
    /\ arg = Flip(ZeroSolution, 2)
    /\ node_to_qubit = [n \in Nodes(device) |-> (3 - n) % 3]
    /\ gates = << <<0, 1>> >>
    /\ locked_edges[1] = 0 /\ locked_edges[2] = LockDuration

\* The gates of a list that qubit q, placed as after the call, takes part in
FiredWith(gl, q) ==
    {k \in 1 .. Len(gl) :
        q \in {node_to_qubit'[gl[k][1]], node_to_qubit'[gl[k][2]]}}

\* C17: whenever execute_cnot fires a gate, the partner of each of its two
\* qubits is the entry of that qubit's interaction list at the position its
\* progress had before the call, the progress of both moves on by exactly
\* one, and a qubit that takes part in no fired gate keeps its progress: no
\* entry of a list is skipped or taken twice
C17_InteractionsInCircuitOrder ==
    [][op' = "execute_cnot" =>
        /\ UNCHANGED node_to_qubit
        /\ \A q \in Nodes(device) :
               /\ Cardinality(FiredWith(gates', q)) <= 1
               /\ FiredWith(gates', q) = {} =>
                      circuit_progress'[q] = circuit_progress[q]
               /\ \A k \in FiredWith(gates', q) :
                      LET n1 == gates'[k][1]
                          n2 == gates'[k][2]
                          partner == IF node_to_qubit[n1] = q
                                     THEN node_to_qubit[n2] ELSE node_to_qubit[n1]
                      IN  /\ circuit_progress[q] < Len(circuit[q])
                          /\ partner = circuit[q][circuit_progress[q] + 1]
                          /\ circuit_progress'[q] = circuit_progress[q] + 1
    ]_vars

\* C17 witness: a batch fired the second interaction of a qubit whose two
\* interactions are with different partners
C17_Witness ==
    /\ op = "execute_cnot"
    /\ Len(gates) = 1
    /\ \E q \in Nodes(device) :
           /\ circuit_progress[q] = 2
           /\ circuit[q][1] # circuit[q][2]
           /\ q \in {node_to_qubit[gates[1][1]], node_to_qubit[gates[1][2]]}

Min(a, b) == IF a < b THEN a ELSE b

\* C18: the search starts its loop with the initial candidate as best; at
\* every iteration best_energy becomes the smaller of its old value and the
\* energy of the candidate the chain is then at, and the best pair changes
\* only by taking that candidate with its energy; so best_energy is at all
\* times the least energy among the initial and the accepted candidates,
\* never above current_energy, and the pair returned is the best pair
C18_BestIsMinimumOfAccepted ==
    /\ [](sa_pc = "loop" => best_energy <= current_energy)
    /\ [][
           /\ (sa_pc = "idle" /\ sa_pc' = "loop") =>
                  (best_energy' = current_energy' /\ best_solution' = current_solution')
           /\ (sa_pc = "loop" /\ sa_pc' = "loop") =>
                  /\ best_energy' = Min(best_energy, current_energy')
                  /\ (best_energy' # best_energy) =>
                         (best_energy' = current_energy' /\ best_solution' = current_solution')
                  /\ (best_energy' = best_energy) => (best_solution' = best_solution)
           /\ (sa_pc = "loop" /\ sa_pc' = "returned") =>
                  result' = [solution |-> best_solution, energy |-> best_energy]
       ]_vars

\* C18 witness: the search returned a best pair found earlier while the
\* chain had moved on to another candidate of higher energy
C18_Witness ==
    /\ sa_pc = "returned"
    /\ iterations > 1
    /\ current_energy > best_energy
    /\ current_solution # best_solution
    /\ result.solution = best_solution
    /\ result.energy = best_energy

\* The positions in which two solutions differ
Differ(a, b) == {i \in EdgeIndices(device) : a[i] # b[i]}

\* An edge that may be flipped in a solution: it is not locked and neither
\* of its nodes is on another selected edge
Eligible(solution, i) ==
    /\ locked_edges[i] = 0
    /\ \A j \in EdgeIndices(device) \ {i} :
           solution[j] # 0 =>
               /\ device.edges[i][1] \notin {device.edges[j][1], device.edges[j][2]}
               /\ device.edges[i][2] \notin {device.edges[j][1], device.edges[j][2]}

\* C19: every solution get_neighbour_solution can return for the current
\* candidate differs from it in exactly one position, the position of an
\* eligible edge, and the call leaves the candidate passed in as it was; so a
\* loop iteration either keeps current_solution or moves it by one such flip
C19_NeighbourIsOneEligibleFlip ==
    [][sa_pc = "loop" =>
        /\ \A n \in get_neighbour_solution(current_solution, State) :
               ~n.raised =>
                   /\ n.current = current_solution
                   /\ Cardinality(Differ(n.solution, current_solution)) = 1
                   /\ \A i \in Differ(n.solution, current_solution) :
                          Eligible(current_solution, i)
        /\ sa_pc' = "loop" =>
               \/ current_solution' = current_solution
               \/ /\ Cardinality(Differ(current_solution', current_solution)) = 1
                  /\ \A i \in Differ(current_solution', current_solution) :
                         Eligible(current_solution, i)
    ]_vars

\* C19 witness: next to a locked edge, the chain has moved by a flip from
\* its initial candidate of one edge to a candidate of two edges
C19_Witness ==
    /\ sa_pc = "loop"
    /\ proposals > 0
    /\ current_solution = best_solution
    /\ \E e \in EdgeIndices(device) : locked_edges[e] > 0
    /\ Cardinality({e \in EdgeIndices(device) : current_solution[e] = 1}) = 2
    /\ current_energy = 0

\* The edges selected by a solution
Selected(solution) == {e \in EdgeIndices(device) : solution[e] # 0}

\* The edges without a lock: the eligible edges of the all-zero solution
Unlocked == {e \in EdgeIndices(device) : locked_edges[e] = 0}

\* C20: generate_initial_solution returns a vector over the device edges
\* that selects exactly one edge, an unlocked one, when some edge is
\* unlocked (and every unlocked edge can be the one), and the all-zero
\* vector when none is; the search takes it as its first candidate
C20_InitialSolutionOneEligibleEdge ==
    [][sa_pc = "idle" =>
        /\ \A s \in generate_initial_solution(State) :
               /\ DOMAIN s = EdgeIndices(device)
               /\ Cardinality(Selected(s)) <= 1
               /\ Unlocked # {} =>
                      (Cardinality(Selected(s)) = 1 /\ Selected(s) \subseteq Unlocked)
               /\ Unlocked = {} => s = ZeroSolution
        /\ {Selected(s) : s \in generate_initial_solution(State)} =
               IF Unlocked = {} THEN {{}} ELSE {{e} : e \in Unlocked}
        /\ sa_pc' # "idle" =>
               /\ Cardinality(Selected(current_solution')) =
                      IF Unlocked = {} THEN 0 ELSE 1
               /\ Selected(current_solution') \subseteq Unlocked
    ]_vars

\* C20 witness: on a device with a locked edge and two unlocked ones the
\* search has taken its initial candidate, a single unlocked edge
C20_Witness ==
    /\ sa_pc = "loop"
    /\ proposals = 0
    /\ Cardinality(Unlocked) = 2
    /\ Cardinality(Selected(current_solution)) = 1
    /\ Selected(current_solution) \subseteq Unlocked
    /\ Len(device.edges) = 3

\* C21: when a loop iteration asks for a neighbour of a candidate that has
\* no swappable edge, the call raises and the search ends there with the
\* error: no energy is evaluated, no pair is returned (the best pair seen
\* is not used), and no step of the search follows the error
C21_SearchExhaustedPropagates ==
    /\ [](sa_pc = "raised" => result = NoResult)
    /\ [][
           /\ (/\ sa_pc = "loop"
               /\ proposals' = proposals + 1
               /\ swappable_edges(State, current_solution) = {}) =>
                  /\ sa_pc' = "raised"
                  /\ result' = NoResult
                  /\ energy_calls' = energy_calls
                  /\ UNCHANGED <<current_solution, best_solution, best_energy,
                                 iterations>>
           /\ sa_pc # "raised"
       ]_vars

\* C21 witness: the search raised at its third proposal, with a best pair
\* recorded and no swappable edge left for a candidate of two edges
C21_Witness ==
    /\ sa_pc = "raised"
    /\ proposals > 2
    /\ swappable_edges(State, current_solution) = {}
    /\ Cardinality({e \in EdgeIndices(device) : current_solution[e] = 1}) = 2
    /\ best_solution # <<>>
    /\ result = NoResult

\* The node pairs of a gate list have no node in common, two by two
NodeDisjoint(gl) ==
    \A j, k \in 1 .. Len(gl) :
        j # k => {gl[j][1], gl[j][2]} \cap {gl[k][1], gl[k][2]} = {}

\* C22: the node pairs fired by one execute_cnot call are pairwise
\* node-disjoint; no operation lowers a progress counter and none raises
\* one by more than one; and in every reachable state each counter lies
\* between 0 and the length of its qubit's interaction list
C22_ProgressBounded ==
    /\ [](\A q \in Nodes(device) :
             /\ 0 <= circuit_progress[q]
             /\ circuit_progress[q] <= Len(circuit[q])
             /\ remaining_targets(State)[q] >= 0)
    /\ [][
           /\ op' = "execute_cnot" => NodeDisjoint(gates')
           /\ \A q \in Nodes(device) :
                  /\ circuit_progress'[q] >= circuit_progress[q]
                  /\ circuit_progress'[q] <= circuit_progress[q] + 1
       ]_vars

\* C22 witness: on the 4-node path one call fired the two interactions of
\* the circuit at once, on the edges 0-1 and 2-3, and every counter is at
\* the length of its list
C22_Witness ==
    /\ op = "execute_cnot"
    /\ device = Path4
    /\ gates = << <<0, 1>>, <<2, 3>> >>
    /\ \A q \in Nodes(device) :
           circuit_progress[q] = 1 /\ Len(circuit[q]) = 1

\* C23 (as claimed): an episode applies the all-False step and then at most
\* training_steps - 1 more; once a step reports done no further step is
\* applied and the episode has returned; and whenever it has ended it has
\* returned the triple of the initial mapping, the traces of the steps
\* applied and the flag, the flag being TRUE exactly when a step reported
\* done
C23_EpisodeReturnsFlaggedTriple ==
    /\ time <= training_steps
    /\ Len(solution_moments) = time
    /\ done => ep_pc = "returned"
    /\ ep_pc = "returned" =>
           returned = Triple(solution_start, solution_moments, done)
    /\ (ep_pc = "returned" /\ ~done) => time = training_steps

\* C24: in a loop iteration a neighbour whose energy is lower than or equal
\* to the current candidate's becomes the current candidate, with its energy,
\* whatever the draw; the current candidate is kept only against a neighbour
\* of strictly higher energy
C24_NotWorseIsAccepted ==
    [][(sa_pc = "loop" /\ sa_pc' = "loop") =>
        /\ new_energy' <= current_energy =>
               /\ current_energy' = new_energy'
               /\ current_solution' # current_solution
               /\ current_solution' \in
                      {n.solution : n \in get_neighbour_solution(current_solution, State)}
        /\ current_solution' = current_solution =>
               (new_energy' > current_energy /\ current_energy' = current_energy)
    ]_vars

\* C24 witness: the chain took a neighbour that did not improve on the best
\* energy and then turned down a neighbour of higher energy
C24_Witness ==
    /\ sa_pc = "loop"
    /\ iterations > 1
    /\ new_energy > current_energy
    /\ current_solution # best_solution
    /\ current_energy = best_energy

\* The node that holds qubit q
NodeOf(q) == CHOOSE n \in Nodes(device) : node_to_qubit[n] = q

\* The length of a shortest path between two nodes of a path device whose
\* nodes are numbered along the path
Hops(n1, n2) == IF n1 < n2 THEN n2 - n1 ELSE n1 - n2

\* C25 (as claimed): in every reachable state the entry of target_distance
\* for a qubit is the length of a shortest path from the node of the qubit
\* to the node of its next target, and 0 when it has no pending target
C25_TargetDistance ==
    \A q \in Nodes(device) :
        target_distance(State)[q] =
            IF qubit_targets[q] = -1 THEN 0
            ELSE Hops(NodeOf(q), NodeOf(qubit_targets[q]))

====
